---- MODULE Spec2Model ----
(***************************************************************************)
(* Candidate-placement pruning for the Battleship deduction engine of      *)
(* src/src/main.rs: placement enumeration (ship_range), the overlap cache  *)
(* (gen_overlap_cache / has_overlap) and the propagation of hits and       *)
(* misses onto the per-type candidate lists (apply_move).                  *)
(*                                                                         *)
(* A Rust Vec is a TLA+ sequence; the Vec index i is the sequence index    *)
(* i + 1.  u8 arithmetic is modelled with its width: an addition or a      *)
(* multiplication that leaves 0..255 panics in a build with overflow       *)
(* checks and wraps modulo 256 in a build without them.                    *)
(***************************************************************************)
EXTENDS Integers, Naturals, Sequences, FiniteSets, TLC

VARIABLES
    overflow_checks,  \* build profile: TRUE when u8 overflow panics
    pos_positions,    \* main's Vec<Vec<u8>>: one candidate list per ship type
    moves,            \* the moves of moves.txt applied so far, in log order
    panicked,         \* TRUE once a call of the run has panicked
    range_call,       \* the last direct call of ship_range and its outcome
    olap_cache,       \* main's olap_cache, <<>> until it is generated
    overlap_query     \* the last call of has_overlap and its outcome

vars == <<overflow_checks, pos_positions, moves, panicked, range_call,
          olap_cache, overlap_query>>

----------------------------------------------------------------------------
(* Constants of the program and the width of its integers                  *)

BOARD_SIZE == 5

NUM_SHIP_TYPES == 5

U8_RANGE == 256

SHIP_TYPES == <<"Patrol", "Destroyer", "Submarine", "Battleship", "Carrier">>

ShipType == {SHIP_TYPES[i] : i \in 1..NUM_SHIP_TYPES}

\* Option<ShipType>::None
None == "None"

\* The values of a u8, and the positions of the board among them
U8 == 0..(U8_RANGE - 1)

BoardPos == 0..(BOARD_SIZE * BOARD_SIZE - 1)

\* A u8 result as a build without overflow checks leaves it
Wrap(x) == x % U8_RANGE

\* Whether a u8 result left the type's range
Overflows(x) == x >= U8_RANGE

----------------------------------------------------------------------------
(* Bounds of the model                                                     *)

\* Moves of the log that are applied in one run
MaxMoves == 2

----------------------------------------------------------------------------
(* Vec helpers                                                             *)

\* Vec::contains
contains(v, x) == \E i \in 1..Len(v) : v[i] = x

\* swap_remove that writes the index of the last element, not the element
swap_remove_index(v, idx) ==
    IF idx + 1 = Len(v)
    THEN SubSeq(v, 1, Len(v) - 1)
    ELSE SubSeq(v, 1, idx) \o <<Len(v) - 1>> \o SubSeq(v, idx + 2, Len(v) - 1)

\* Vec::swap_remove(idx): the last element takes the place of the removed one
swap_remove(v, idx) ==
    IF idx + 1 = Len(v)
    THEN SubSeq(v, 1, Len(v) - 1)
    ELSE SubSeq(v, 1, idx) \o <<v[Len(v)]>> \o SubSeq(v, idx + 2, Len(v) - 1)

\* The members of a Vec
Members(v) == {v[i] : i \in 1..Len(v)}

----------------------------------------------------------------------------
(* ShipCatalog and PlacementEnumerator                                     *)

pos_from_parts(row, col) == Wrap(Wrap(BOARD_SIZE * row) + col)

pos_from_parts_overflows(row, col) ==
    Overflows(BOARD_SIZE * row) \/ Overflows(Wrap(BOARD_SIZE * row) + col)

stype_id(stype) == (CHOOSE i \in 1..NUM_SHIP_TYPES : SHIP_TYPES[i] = stype) - 1

ship_size(shiptype) ==
    CASE shiptype = "Patrol"     -> 2
      [] shiptype = "Destroyer"  -> 3
      [] shiptype = "Submarine"  -> 3
      [] shiptype = "Battleship" -> 4
      [] shiptype = "Carrier"    -> 5

reduced_poscount(shiptype) == BOARD_SIZE - ship_size(shiptype) + 1

num_positions(shiptype) == 2 * reduced_poscount(shiptype) * BOARD_SIZE

\* Lower-numbered positions are horizontal, higher-numbered ones vertical
horizontal(shiptype, pos) == pos < num_positions(shiptype) \div 2

\* start_square whose vertical branch does not subtract the half offset
start_square_no_offset(shiptype, pos) ==
    IF horizontal(shiptype, pos)
    THEN pos_from_parts(pos \div reduced_poscount(shiptype),
                        pos % reduced_poscount(shiptype))
    ELSE pos_from_parts(pos \div BOARD_SIZE, pos % BOARD_SIZE)

\* start_square whose horizontal branch decodes with the full row width
start_square_fullrow(shiptype, pos) ==
    IF horizontal(shiptype, pos)
    THEN pos_from_parts(pos \div BOARD_SIZE, pos % BOARD_SIZE)
    ELSE LET vpos == pos - num_positions(shiptype) \div 2
         IN  pos_from_parts(vpos \div BOARD_SIZE, vpos % BOARD_SIZE)

\* start_square of ship_range
start_square(shiptype, pos) ==
    IF horizontal(shiptype, pos)
    THEN pos_from_parts(pos \div reduced_poscount(shiptype),
                        pos % reduced_poscount(shiptype))
    ELSE LET vpos == pos - num_positions(shiptype) \div 2
         IN  pos_from_parts(vpos \div BOARD_SIZE, vpos % BOARD_SIZE)

\* Whether computing start_square overflows a u8
start_square_overflows(shiptype, pos) ==
    IF horizontal(shiptype, pos)
    THEN pos_from_parts_overflows(pos \div reduced_poscount(shiptype),
                                  pos % reduced_poscount(shiptype))
    ELSE LET vpos == pos - num_positions(shiptype) \div 2
         IN  pos_from_parts_overflows(vpos \div BOARD_SIZE, vpos % BOARD_SIZE)

\* step_size of ship_range
step_size(shiptype, pos) ==
    IF horizontal(shiptype, pos) THEN 1 ELSE BOARD_SIZE

\* The squares ship_range returns where no overflow check stops it
ship_range(shiptype, pos) ==
    LET start == start_square(shiptype, pos)
        step  == step_size(shiptype, pos)
    IN  [v \in 1..ship_size(shiptype) |-> Wrap(start + Wrap(step * (v - 1)))]

\* Whether a u8 operation of ship_range(shiptype, pos) overflows
ship_range_overflows(shiptype, pos) ==
    LET start == start_square(shiptype, pos)
        step  == step_size(shiptype, pos)
    IN  \/ start_square_overflows(shiptype, pos)
        \/ \E v \in 1..ship_size(shiptype) :
              \/ Overflows(step * (v - 1))
              \/ Overflows(start + Wrap(step * (v - 1)))

\* ship_range over every ship type and every u8, evaluated once
ship_range_table ==
    [shiptype \in ShipType |->
        [pos \in U8 |-> [cells     |-> ship_range(shiptype, pos),
                         overflows |-> ship_range_overflows(shiptype, pos)]]]

\* Whether the call ship_range(shiptype, pos) panics in this build
ship_range_panics(shiptype, pos) ==
    overflow_checks /\ ship_range_table[shiptype][pos].overflows

\* ship_range(shiptype, pos).contains(&x)
ship_range_contains(shiptype, pos, x) ==
    contains(ship_range_table[shiptype][pos].cells, x)

----------------------------------------------------------------------------
(* OverlapTable: calc_has_overlap, gen_overlap_cache, has_overlap          *)

\* calc_has_overlap with all in the place of any
calc_has_overlap_all(ship1, pos1, ship2, pos2) ==
    LET range1 == ship_range_table[ship1][pos1].cells
        range2 == ship_range_table[ship2][pos2].cells
    IN  \A i \in 1..Len(range1) : contains(range2, range1[i])

calc_has_overlap(ship1, pos1, ship2, pos2) ==
    LET range1 == ship_range_table[ship1][pos1].cells
        range2 == ship_range_table[ship2][pos2].cells
    IN  \E i \in 1..Len(range1) : contains(range2, range1[i])

\* Whether a ship_range call of gen_overlap_cache panics in this build
gen_overlap_cache_panics ==
    \E stype \in ShipType : \E pos \in 0..(num_positions(stype) - 1) :
        ship_range_panics(stype, pos)

\* out[stype1_idx][stype2_idx][pos1][pos2], built by the four nested loops
gen_overlap_cache ==
    [stype1_idx \in 1..NUM_SHIP_TYPES |->
        [stype2_idx \in 1..NUM_SHIP_TYPES |->
            [pos1 \in 1..num_positions(SHIP_TYPES[stype1_idx]) |->
                [pos2 \in 1..num_positions(SHIP_TYPES[stype2_idx]) |->
                    calc_has_overlap(SHIP_TYPES[stype1_idx], pos1 - 1,
                                     SHIP_TYPES[stype2_idx], pos2 - 1)]]]]

has_overlap(ship1, pos1, ship2, pos2, cache) ==
    cache[stype_id(ship1) + 1][stype_id(ship2) + 1][pos1 + 1][pos2 + 1]

----------------------------------------------------------------------------
(* ConstraintPropagator: process_miss, process_hit, apply_move             *)

\* The loop of process_miss advancing past the element a removal swapped in
RECURSIVE process_miss_scan_skip(_, _, _, _)
process_miss_scan_skip(stype, plist, idx, pos) ==
    IF idx < Len(plist)
    THEN IF ship_range_panics(stype, plist[idx + 1])
         THEN [plist |-> plist, panicked |-> TRUE]
         ELSE IF ship_range_contains(stype, plist[idx + 1], pos)
              THEN process_miss_scan_skip(stype, swap_remove(plist, idx),
                                          idx + 1, pos)
              ELSE process_miss_scan_skip(stype, plist, idx + 1, pos)
    ELSE [plist |-> plist, panicked |-> FALSE]

\* The while loop of process_miss over one type's list, from index idx
RECURSIVE process_miss_scan(_, _, _, _)
process_miss_scan(stype, plist, idx, pos) ==
    IF idx < Len(plist)
    THEN IF ship_range_panics(stype, plist[idx + 1])
         THEN [plist |-> plist, panicked |-> TRUE]
         ELSE IF ship_range_contains(stype, plist[idx + 1], pos)
              THEN process_miss_scan(stype, swap_remove(plist, idx), idx, pos)
              ELSE process_miss_scan(stype, plist, idx + 1, pos)
    ELSE [plist |-> plist, panicked |-> FALSE]

\* The for loop of process_miss over the lists, from list stype_idx
RECURSIVE process_miss_from(_, _, _)
process_miss_from(store, stype_idx, pos) ==
    IF stype_idx < Len(store)
    THEN LET r == process_miss_scan(SHIP_TYPES[stype_idx + 1],
                                    store[stype_idx + 1], 0, pos)
             next == [store EXCEPT ![stype_idx + 1] = r.plist]
         IN  IF r.panicked
             THEN [store |-> next, panicked |-> TRUE]
             ELSE process_miss_from(next, stype_idx + 1, pos)
    ELSE [store |-> store, panicked |-> FALSE]

process_miss(store, pos) == process_miss_from(store, 0, pos)

\* The loop of process_hit advancing past the element a removal swapped in
RECURSIVE process_hit_scan_skip(_, _, _, _)
process_hit_scan_skip(poslist, stype, pos, idx) ==
    IF idx < Len(poslist)
    THEN IF ship_range_panics(stype, poslist[idx + 1])
         THEN [plist |-> poslist, panicked |-> TRUE]
         ELSE IF ship_range_contains(stype, poslist[idx + 1], pos)
              THEN process_hit_scan_skip(poslist, stype, pos, idx + 1)
              ELSE process_hit_scan_skip(swap_remove(poslist, idx), stype,
                                         pos, idx + 1)
    ELSE [plist |-> poslist, panicked |-> FALSE]

\* The while loop of process_hit, from index idx
RECURSIVE process_hit_scan(_, _, _, _)
process_hit_scan(poslist, stype, pos, idx) ==
    IF idx < Len(poslist)
    THEN IF ship_range_panics(stype, poslist[idx + 1])
         THEN [plist |-> poslist, panicked |-> TRUE]
         ELSE IF ship_range_contains(stype, poslist[idx + 1], pos)
              THEN process_hit_scan(poslist, stype, pos, idx + 1)
              ELSE process_hit_scan(swap_remove(poslist, idx), stype, pos, idx)
    ELSE [plist |-> poslist, panicked |-> FALSE]

process_hit(poslist, stype, pos) == process_hit_scan(poslist, stype, pos, 0)

\* apply_move whose hit also removes, from every other type, the
\* placements that cover the hit position
apply_move_cross(store, move_val) ==
    IF move_val.ship = None
    THEN process_miss(store, move_val.pos)
    ELSE LET r == process_hit(store[stype_id(move_val.ship) + 1],
                              move_val.ship, move_val.pos)
             m == process_miss(store, move_val.pos)
         IN  [store    |-> [m.store EXCEPT ![stype_id(move_val.ship) + 1] = r.plist],
              panicked |-> r.panicked \/ m.panicked]

\* apply_move whose hit filters the full placement list of the type, not
\* the list the store holds
apply_move_fresh(store, move_val) ==
    IF move_val.ship = None
    THEN process_miss(store, move_val.pos)
    ELSE LET full == [i \in 1..num_positions(move_val.ship) |-> i - 1]
             r == process_hit(full, move_val.ship, move_val.pos)
         IN  [store    |-> [store EXCEPT ![stype_id(move_val.ship) + 1] = r.plist],
              panicked |-> r.panicked]

\* apply_move on the store: the store it leaves and whether the call panicked
apply_move(store, move_val) ==
    IF move_val.ship = None
    THEN process_miss(store, move_val.pos)
    ELSE LET r == process_hit(store[stype_id(move_val.ship) + 1],
                              move_val.ship, move_val.pos)
         IN  [store    |-> [store EXCEPT ![stype_id(move_val.ship) + 1] = r.plist],
              panicked |-> r.panicked]

----------------------------------------------------------------------------
(* main: the store is initialised, then the moves of the log are applied   *)

\* 0..n-1 collected into a Vec
Collect(n) == [i \in 1..n |-> i - 1]

InitialStore ==
    [i \in 1..NUM_SHIP_TYPES |-> Collect(num_positions(SHIP_TYPES[i]))]

NoCall == [called |-> FALSE]

Init ==
    /\ overflow_checks \in BOOLEAN
    /\ pos_positions = InitialStore
    /\ moves = <<>>
    /\ panicked = FALSE
    /\ range_call = NoCall
    /\ olap_cache = <<>>
    /\ overlap_query = NoCall

\* Positions a move of the log may carry: every square of the board, the
\* first position past it and the largest u8
OutOfBoard == {BOARD_SIZE * BOARD_SIZE, U8_RANGE - 1}

MovePositions == BoardPos \cup OutOfBoard

\* Squares the moves before the last one of a modelled log probe: two
\* adjacent corner squares, the centre and the opposite corner
SamplePositions == {0, 1, (BOARD_SIZE * BOARD_SIZE - 1) \div 2,
                    BOARD_SIZE * BOARD_SIZE - 1}

\* The logs the model extends: those probing only sample squares
Extendable ==
    /\ Len(moves) < MaxMoves
    /\ \A i \in 1..Len(moves) : moves[i].pos \in SamplePositions

\* One iteration of main's loop: apply_move(&mut pos_positions, cur_move)
ApplyMove(pos, ship) ==
    /\ ~panicked
    /\ olap_cache = <<>>
    /\ Extendable
    /\ LET cur_move == [pos |-> pos, ship |-> ship]
           r == apply_move(pos_positions, cur_move)
       IN  /\ pos_positions' = r.store
           /\ panicked' = r.panicked
           /\ moves' = Append(moves, cur_move)
    /\ UNCHANGED <<overflow_checks, range_call, olap_cache, overlap_query>>

Next ==
    \E pos \in MovePositions, ship \in ShipType \cup {None} : ApplyMove(pos, ship)

Spec == Init /\ [][Next]_vars

----------------------------------------------------------------------------
(* ship_range called directly, on any ship type and any u8                 *)

CallShipRange(shiptype, pos) ==
    /\ ~range_call.called
    /\ range_call' =
          [called   |-> TRUE,
           shiptype |-> shiptype,
           pos      |-> pos,
           panicked |-> ship_range_panics(shiptype, pos),
           cells    |-> IF ship_range_panics(shiptype, pos)
                        THEN <<>>
                        ELSE ship_range(shiptype, pos)]
    /\ UNCHANGED <<overflow_checks, pos_positions, moves, panicked,
                   olap_cache, overlap_query>>

NextRange == \E shiptype \in ShipType, pos \in U8 : CallShipRange(shiptype, pos)

SpecRange == Init /\ [][NextRange]_vars

----------------------------------------------------------------------------
(* main on an empty log: the overlap cache is generated, then queried      *)

\* let olap_cache = gen_overlap_cache();
GenOverlapCache ==
    /\ ~panicked
    /\ olap_cache = <<>>
    /\ IF gen_overlap_cache_panics
       THEN panicked' = TRUE /\ UNCHANGED olap_cache
       ELSE olap_cache' = gen_overlap_cache /\ UNCHANGED panicked
    /\ UNCHANGED <<overflow_checks, pos_positions, moves, range_call,
                   overlap_query>>

\* has_overlap(ship1, pos1, ship2, pos2, &olap_cache) on in-range indices
HasOverlap ==
    /\ ~overlap_query.called
    /\ olap_cache # <<>>
    /\ \E ship1 \in ShipType, ship2 \in ShipType :
          \E pos1 \in 0..(num_positions(ship1) - 1),
             pos2 \in 0..(num_positions(ship2) - 1) :
                overlap_query' =
                    [called |-> TRUE, ship1 |-> ship1, pos1 |-> pos1,
                     ship2 |-> ship2, pos2 |-> pos2,
                     result |-> has_overlap(ship1, pos1, ship2, pos2, olap_cache)]
    /\ UNCHANGED <<overflow_checks, pos_positions, moves, panicked,
                   range_call, olap_cache>>

NextCache == GenOverlapCache \/ HasOverlap

SpecCache == Init /\ [][NextCache]_vars

----------------------------------------------------------------------------
(* Vocabulary of the properties                                            *)

\* The candidate set of ship type t in a store
Candidates(store, t) == Members(store[stype_id(t) + 1])

\* No placement index occurs twice in the list of ship type t
NoDuplicates(store, t) ==
    Cardinality(Candidates(store, t)) = Len(store[stype_id(t) + 1])

\* Placement p of ship type t covers board position pos
Covers(t, p, pos) == pos \in Members(ship_range_table[t][p].cells)

\* The last move applied
LastMove == moves[Len(moves)]

\* This step applies one more move of the log
MoveApplied == Len(moves') = Len(moves) + 1

\* Every placement index of ship type t
AllPlacements(t) == 0..(num_positions(t) - 1)

----------------------------------------------------------------------------
(* Properties of apply_move, checked under Spec                            *)

\* C1: a miss at a board position pos leaves, for every ship type, exactly
\* the candidates of before whose squares do not contain pos, each once;
\* on the fresh store a miss at 0 leaves Patrol 40 - 2 = 38 candidates
C1_MissSemantics ==
    [][(MoveApplied /\ moves'[Len(moves')].ship = None
                    /\ moves'[Len(moves')].pos \in BoardPos)
        => /\ ~panicked'
           /\ \A t \in ShipType :
                /\ Candidates(pos_positions', t)
                     = {p \in Candidates(pos_positions, t) :
                           ~Covers(t, p, moves'[Len(moves')].pos)}
                /\ NoDuplicates(pos_positions', t)
           /\ (moves = <<>> /\ moves'[Len(moves')].pos = 0)
                => Len(pos_positions'[stype_id("Patrol") + 1]) = 40 - 2]_vars

\* A miss at 24 on the fresh store has removed Patrol's placement 19 and
\* then placement 39, which the removal swapped into the place of 19
C1_Witness ==
    /\ moves = <<[pos |-> 24, ship |-> None]>>
    /\ Candidates(pos_positions, "Patrol") = AllPlacements("Patrol") \ {19, 39}
    /\ Len(pos_positions[stype_id("Patrol") + 1]) = 40 - 2

\* C2: a hit on ship type t at a board position pos leaves t exactly the
\* candidates of before whose squares contain pos; on the fresh store the
\* hit (0, Patrol) leaves the 2 placements covering square 0
C2_HitSemantics ==
    [][(MoveApplied /\ moves'[Len(moves')].ship \in ShipType
                    /\ moves'[Len(moves')].pos \in BoardPos)
        => LET t   == moves'[Len(moves')].ship
               pos == moves'[Len(moves')].pos
           IN  /\ ~panicked'
               /\ Candidates(pos_positions', t)
                    = {p \in Candidates(pos_positions, t) : Covers(t, p, pos)}
               /\ NoDuplicates(pos_positions', t)
               /\ (moves = <<>> /\ pos = 0 /\ t = "Patrol")
                    => /\ Len(pos_positions'[stype_id(t) + 1]) = 2
                       /\ Candidates(pos_positions', t) = {0, 20}]_vars

\* The hit (0, Patrol) on the fresh store has left Patrol placements 0 and 20
C2_Witness ==
    /\ moves = <<[pos |-> 0, ship |-> "Patrol"]>>
    /\ Candidates(pos_positions, "Patrol") = {0, 20}
    /\ Len(pos_positions[stype_id("Patrol") + 1]) = 2

\* C3: a hit on ship type t, at any position, leaves the list of every
\* other ship type as it was
C3_HitFrame ==
    [][(MoveApplied /\ moves'[Len(moves')].ship \in ShipType)
        => \A u \in ShipType \ {moves'[Len(moves')].ship} :
              pos_positions'[stype_id(u) + 1] = pos_positions[stype_id(u) + 1]]_vars

\* A hit on Patrol has pruned Patrol's list and the Carrier still has all
\* of its placements
C3_Witness ==
    /\ moves = <<[pos |-> 0, ship |-> "Patrol"]>>
    /\ Len(pos_positions[stype_id("Patrol") + 1]) < num_positions("Patrol")
    /\ Candidates(pos_positions, "Carrier") = AllPlacements("Carrier")
    /\ Candidates(pos_positions, "Destroyer") = AllPlacements("Destroyer")

\* C6: every call of apply_move leaves each type a subset of the
\* candidates it had before the call
C6_MonotonicShrink ==
    [][\A t \in ShipType :
          Candidates(pos_positions', t) \subseteq Candidates(pos_positions, t)]_vars

\* Two moves have each removed candidates of Patrol
C6_Witness ==
    /\ Len(moves) = 2
    /\ moves[1] = [pos |-> 0, ship |-> None]
    /\ moves[2] = [pos |-> 1, ship |-> "Patrol"]
    /\ Candidates(pos_positions, "Patrol") = {1, 21}

\* C7: a move whose position is outside the board makes apply_move fail
C7_OutOfRangeMoveFails ==
    (moves # <<>> /\ LastMove.pos \notin BoardPos) => panicked

\* The candidates of ship type t that the moves applied so far allow
Consistent(t) ==
    {p \in AllPlacements(t) :
        \A i \in 1..Len(moves) :
            /\ moves[i].ship = t => Covers(t, p, moves[i].pos)
            /\ moves[i].ship = None => ~Covers(t, p, moves[i].pos)}

\* C10: after any moves with positions on the board no call has failed and
\* each type holds exactly the placements that cover every position hit
\* for it and no missed position, so the order and the repetition of moves
\* do not matter; a hit on t and a miss at the same position leave t empty
C10_OrderIndependence ==
    (\A i \in 1..Len(moves) : moves[i].pos \in BoardPos)
    => /\ ~panicked
       /\ \A t \in ShipType :
            /\ Candidates(pos_positions, t) = Consistent(t)
            /\ NoDuplicates(pos_positions, t)
            /\ (\E i, j \in 1..Len(moves) :
                   /\ moves[i].ship = t
                   /\ moves[j].ship = None
                   /\ moves[i].pos = moves[j].pos)
                 => pos_positions[stype_id(t) + 1] = <<>>

\* A hit on Patrol at 0 followed by a miss at 0 has left Patrol empty
C10_Witness ==
    /\ moves = <<[pos |-> 0, ship |-> "Patrol"], [pos |-> 0, ship |-> None]>>
    /\ ~panicked
    /\ pos_positions[stype_id("Patrol") + 1] = <<>>
    /\ Candidates(pos_positions, "Carrier") = AllPlacements("Carrier") \ {0, 5}

----------------------------------------------------------------------------
(* Properties of ship_range, checked under SpecRange                       *)

\* The call of ship_range was made with an index of the type's placements
InRangeCall ==
    range_call.called /\ range_call.pos < num_positions(range_call.shiptype)

\* Row and column of a board position
RowOf(p) == p \div BOARD_SIZE

ColOf(p) == p % BOARD_SIZE

\* C4: over the indices below num_positions(t), ship_range returns
\* ship_size(t) distinct squares of the board, and no two indices give the
\* same set of squares, so the sets number num_positions(t)
C4_PlacementBijection ==
    InRangeCall
    => LET t     == range_call.shiptype
           cells == range_call.cells
       IN  /\ ~range_call.panicked
           /\ Len(cells) = ship_size(t)
           /\ Cardinality(Members(cells)) = ship_size(t)
           /\ Members(cells) \subseteq BoardPos
           /\ \A j \in AllPlacements(t) \ {range_call.pos} :
                 Members(ship_range(t, j)) # Members(cells)
           /\ Cardinality({Members(ship_range(t, j)) : j \in AllPlacements(t)})
                 = num_positions(t)

\* The last placement of the Carrier is the rightmost column
C4_Witness ==
    /\ range_call.called
    /\ range_call.shiptype = "Carrier"
    /\ range_call.pos = num_positions("Carrier") - 1
    /\ range_call.cells = <<4, 9, 14, 19, 24>>

\* C5: an index of the lower half gives consecutive columns of one row, an
\* index of the upper half consecutive rows of one column
C5_HalfSplit ==
    InRangeCall
    => LET t     == range_call.shiptype
           cells == range_call.cells
       IN  /\ Len(cells) = ship_size(t)
           /\ IF range_call.pos < num_positions(t) \div 2
              THEN \A k \in 1..(Len(cells) - 1) :
                      /\ RowOf(cells[k + 1]) = RowOf(cells[k])
                      /\ ColOf(cells[k + 1]) = ColOf(cells[k]) + 1
              ELSE \A k \in 1..(Len(cells) - 1) :
                      /\ ColOf(cells[k + 1]) = ColOf(cells[k])
                      /\ RowOf(cells[k + 1]) = RowOf(cells[k]) + 1

\* The last horizontal placement of the Patrol ends the last row
C5_Witness ==
    /\ range_call.called
    /\ range_call.shiptype = "Patrol"
    /\ range_call.pos = num_positions("Patrol") \div 2 - 1
    /\ range_call.cells = <<23, 24>>

\* C8: ship_range fails on an index that is not below num_positions(t)
C8_OutOfRangeIndexFails ==
    (range_call.called /\ range_call.pos >= num_positions(range_call.shiptype))
    => range_call.panicked

----------------------------------------------------------------------------
(* Properties of the overlap cache, checked under SpecCache                *)

\* C9: the cache holds, for every ordered pair of types, num_positions(t1)
\* rows of num_positions(t2) entries, and has_overlap answers whether the
\* two placements share a square, the same in both orders of the arguments
C9_OverlapTable ==
    /\ olap_cache # <<>>
       => /\ Len(olap_cache) = NUM_SHIP_TYPES
          /\ \A i1, i2 \in 1..NUM_SHIP_TYPES :
                /\ Len(olap_cache[i1]) = NUM_SHIP_TYPES
                /\ Len(olap_cache[i1][i2]) = num_positions(SHIP_TYPES[i1])
                /\ \A p1 \in 1..Len(olap_cache[i1][i2]) :
                      Len(olap_cache[i1][i2][p1]) = num_positions(SHIP_TYPES[i2])
    /\ overlap_query.called
       => LET q == overlap_query
          IN  /\ q.result \in BOOLEAN
              /\ q.result <=> (Members(ship_range(q.ship1, q.pos1))
                                 \cap Members(ship_range(q.ship2, q.pos2)) # {})
              /\ q.result = has_overlap(q.ship2, q.pos2, q.ship1, q.pos1,
                                        olap_cache)

\* The horizontal Patrol at squares 0, 1 is found to overlap the vertical
\* Carrier of column 1
C9_Witness ==
    /\ overlap_query.called
    /\ overlap_query.ship1 = "Patrol" /\ overlap_query.pos1 = 0
    /\ overlap_query.ship2 = "Carrier" /\ overlap_query.pos2 = 6
    /\ overlap_query.result = TRUE

====
